---- MODULE Spec2Model ----
(***************************************************************************)
(* Registration and admin-approval bot (src/main.py).                      *)
(*                                                                         *)
(* State: the two PostgreSQL tables (users, payments), the SERIAL counter  *)
(* of payments.id, the condition of the single shared psycopg connection,  *)
(* the in-memory dict user_state, the wall clock read by datetime.now(),   *)
(* the messages the handler of the last update sent, and the handler that  *)
(* is suspended at an await, if any.                                       *)
(*                                                                         *)
(* python-telegram-bot's Application is built without concurrent_updates,  *)
(* so updates are handled one after the other: one action per update in    *)
(* Spec and SpecFaults (statements may fail); SpecAwaits takes the         *)
(* handlers that write after an await one stretch of code at a time.       *)
(*                                                                         *)
(* A row keeps the columns some statement reads (in a WHERE clause or a    *)
(* SELECT list); the columns that are only ever written (name, email,      *)
(* phone, approved_at, payments.package, payments.payment_account,         *)
(* payments.timestamp) are left out.  Line 272 of the source only builds   *)
(* the inline keyboard of the account menu; the model follows the          *)
(* statements of the handlers as they are written around it.               *)
(***************************************************************************)
EXTENDS Integers, Sequences, FiniteSets

\* ---------------------------------------------------------------- bounds
NumActors == 2
MaxPayments == 2
MaxTime == 2

\* ------------------------------------------------------- configuration
ADMIN_ID == 1

\* chat ids: the administrator's chat and the chats of the people registering
Actors == 1..NumActors

Registrants == Actors \ {ADMIN_ID}

PAYMENT_ACCOUNTS == {"Bank A", "Bank B"}

PACKAGE_PRICES_NGN == {"Standard", "X"}

\* SQL NULL of a TEXT column / of a TIMESTAMP column / Python None as an id
NULL == "NULL"
NoTime == 0
None == 0

\* ------------------------------------------------------------ variables
VARIABLES
    users,            \* table users: set of rows, chat_id is the primary key
    payments,         \* table payments: set of rows, id is the primary key
    payments_id_seq,  \* next value of the SERIAL column payments.id
    conn_ok,          \* FALSE once a statement failed on the shared connection
    store_faulty,     \* environment: whether statements of this run can fail
    user_state,       \* the dict user_state: chat id -> expectation record
    now,              \* the reading of datetime.datetime.now()
    sent,             \* messages sent while handling the last update, in order
    running,          \* the handler suspended at an await, with what it has read
    scenario,         \* history: how far the run has followed the reference sequence
    requested         \* history: the administrator's finalize request not yet served

vars == <<users, payments, payments_id_seq, conn_ok, store_faulty, user_state, now, sent,
          running, scenario, requested>>

\* ------------------------------------------------- text and callback data
\* A character string is a sequence of one-character strings; a message text
\* is the sequence of its lines (what str.splitlines() returns).
IsSpace(ch) == ch = " "

RECURSIVE LStrip(_)
LStrip(s) == IF s # <<>> /\ IsSpace(Head(s)) THEN LStrip(Tail(s)) ELSE s

RECURSIVE RStrip(_)
RStrip(s) ==
    IF s # <<>> /\ IsSpace(s[Len(s)]) THEN RStrip(SubSeq(s, 1, Len(s) - 1)) ELSE s

\* str.strip()
Strip(s) == RStrip(LStrip(s))

\* variant: the blank lines are kept (the filter "if l.strip()" is missing)
CredentialLinesKeepsBlank(text) == [i \in 1..Len(text) |-> Strip(text[i])]

\* [l.strip() for l in text.splitlines() if l.strip()]
RECURSIVE CredentialLines(_)
CredentialLines(text) ==
    IF text = <<>> THEN <<>>
    ELSE IF Strip(Head(text)) # <<>>
         THEN <<Strip(Head(text))>> \o CredentialLines(Tail(text))
         ELSE CredentialLines(Tail(text))

\* Decimal numerals, for the ids embedded in callback data.
Numerals == <<"1", "2", "3", "4", "5", "6", "7", "8", "9">>

\* f"{n}" of an id
Str(n) == IF n = 0 THEN "0" ELSE Numerals[n]

\* int(s) succeeds
IsInt(s) == s = "0" \/ \E i \in 1..Len(Numerals) : Numerals[i] = s

\* int(s)
ToInt(s) == IF s = "0" THEN 0 ELSE CHOOSE i \in 1..Len(Numerals) : Numerals[i] = s

\* ---------------------------------------------------------------- tables
UserRow(c, u, p, s, r) ==
    [chat_id |-> c, username |-> u, package |-> p, payment_status |-> s,
     registration_date |-> r]

PaymentRow(i, c, s) == [id |-> i, chat_id |-> c, status |-> s]

\* SELECT ... FROM users WHERE chat_id = c
UsersOf(c) == {r \in users : r.chat_id = c}

\* SELECT ... FROM payments WHERE chat_id = c
PaymentsOf(c) == {p \in payments : p.chat_id = c}

\* the user name Telegram reports for a chat (update.effective_user.username)
TgUsername(c) == <<"t">>

\* UPDATE users SET ... WHERE chat_id = c, set[r] being the row r as SET leaves it
UpdateUsers(c, set) == {IF r.chat_id = c THEN set[r] ELSE r : r \in users}

\* UPDATE payments SET status = s WHERE id = i
UpdatePayment(i, s) ==
    {IF p.id = i THEN [p EXCEPT !.status = s] ELSE p : p \in payments}

\* ------------------------------------------------------------- messages
\* A sent message: the receiving chat, what it says, the chat id, payment id
\* and credential lines its text names, and the callback data of its buttons.
Msg(to, kind, chat, pid, lines, buttons) ==
    [to |-> to, kind |-> kind, chat |-> chat, pid |-> pid, lines |-> lines,
     buttons |-> buttons]

Note(to, kind) == Msg(to, kind, None, None, <<>>, <<>>)

\* callback_data=f"approve_reg_{uid}_{payment_id}" and its siblings, as the
\* parts data.split("_") yields
ApproveData(uid, pid) == <<"approve", "reg", Str(uid), Str(pid)>>

RejectData(uid, pid) == <<"reject", "reg", Str(uid), Str(pid)>>

FinalizeData(uid) == <<"finalize", "reg", Str(uid)>>

\* ------------------------------------------------------------ user_state
NoState == [expecting |-> "none", payment_id |-> None, for_user |-> None]

\* variant: the id of the payment is not stored
ExpectScreenshotNoId(pid) ==
    [expecting |-> "reg_screenshot", payment_id |-> None, for_user |-> None]

ExpectScreenshot(pid) ==
    [expecting |-> "reg_screenshot", payment_id |-> pid, for_user |-> None]

ExpectCredentials(target) ==
    [expecting |-> "user_credentials", payment_id |-> None, for_user |-> target]

\* variant: the entry is left in the dict
PopForgotten(c) == user_state

\* user_state.pop(c, None); a chat without an entry reads as NoState
Pop(c) == [user_state EXCEPT ![c] = NoState]

\* ------------------------------------------------- the reference sequence
\* scenario records how far the updates handled since startup are exactly the
\* sequence of section 8 of the specification: entry, package Standard, account
\* Bank A, screenshot, then the administrator's approve, finalize request and
\* two-line credentials, or the administrator's reject.  Any other update turns
\* it "off"; after the reject it stays "after_reject" whatever follows, until
\* the user selects an account again (a new payment).  It records the chat,
\* the payment id and the credentials text of the sequence.
At(stage, chat, pid, text) == [stage |-> stage, chat |-> chat, pid |-> pid, text |-> text]

\* a text of exactly two lines, each non-empty and without surrounding blanks
IsTwoCleanLines(text) ==
    /\ Len(text) = 2
    /\ \A i \in 1..2 : text[i] # <<>> /\ Strip(text[i]) = text[i]

Follow(op, c, arg) ==
    LET st == scenario.stage
        u == scenario.chat
        p == scenario.pid
    IN IF st \in {"rejected", "after_reject"}
       THEN IF op = "select_account" /\ c = u
            THEN At("off", None, None, <<>>)
            ELSE At("after_reject", u, p, <<>>)
       ELSE IF ~conn_ok' THEN At("off", None, None, <<>>)
       ELSE IF st = "begin" /\ op = "start"
            THEN At("entered", c, None, <<>>)
       ELSE IF st = "entered" /\ op = "choose_package" /\ c = u /\ arg = "reg_standard"
            THEN At("chosen", u, None, <<>>)
       ELSE IF st = "chosen" /\ op = "select_account" /\ c = u /\ arg = "Bank A"
            THEN At("selected", u, payments_id_seq, <<>>)
       ELSE IF st = "selected" /\ op = "handle_photo" /\ c = u
            THEN At("submitted", u, p, <<>>)
       ELSE IF st = "submitted" /\ op = "approve_reg" /\ c = ADMIN_ID
                                /\ arg = ApproveData(u, p)
            THEN At("approved", u, p, <<>>)
       ELSE IF st = "submitted" /\ op = "reject_reg" /\ c = ADMIN_ID
                                /\ arg = RejectData(u, p)
            THEN At("rejected", u, p, <<>>)
       ELSE IF st = "approved" /\ op = "finalize_reg" /\ c = ADMIN_ID
                               /\ arg = FinalizeData(u)
            THEN At("finalizing", u, p, <<>>)
       ELSE IF st = "finalizing" /\ op = "handle_text" /\ c = ADMIN_ID
                                 /\ IsTwoCleanLines(arg)
            THEN At("registered", u, p, arg)
       ELSE At("off", None, None, <<>>)

\* --------------------------------------------------- the finalize requests
\* requested records, in the runs that start with it empty, the target chat of
\* the last finalize request that came from the administrator's chat, as <<t>>,
\* until a credentials message is delivered; <<>> when there is none.
NotTracked == <<-1>>

Requested(op, c, target) ==
    IF requested = NotTracked THEN NotTracked
    ELSE IF op = "finalize_reg" THEN (IF c = ADMIN_ID THEN <<target>> ELSE requested)
    ELSE <<>>

\* ------------------------------------------------------- the dispatcher
\* No handler is in progress.
Idle == [handler |-> "none", uid |-> None, state |-> NoState, pc |-> "none"]

\* A handler that awaits a send, with the chat it serves and the entry of
\* user_state it read when it began.
Suspended(handler, uid, state, pc) ==
    [handler |-> handler, uid |-> uid, state |-> state, pc |-> pc]

\* variant: the Application handles updates concurrently
CanDispatchConcurrently == TRUE

\* The Application is built without concurrent_updates and the handlers are
\* added blocking: the next update is taken when the handler of the last one
\* has returned.
CanDispatch == running = Idle

\* ------------------------------------------------------------------ Init
\* the state the module-level code leaves: empty tables, a fresh connection
Startup ==
    /\ users = {}
    /\ payments = {}
    /\ payments_id_seq = 1
    /\ conn_ok = TRUE
    /\ user_state = [c \in Actors |-> NoState]
    /\ now = 1
    /\ sent = <<>>
    /\ running = Idle
    /\ scenario = At("begin", None, None, <<>>)

\* the store is reachable throughout
Init == Startup /\ store_faulty = FALSE /\ requested = NotTracked

\* statements may fail
InitFaults == Startup /\ store_faulty = TRUE /\ requested = NotTracked

\* the store is reachable throughout and the finalize requests are recorded
InitRequests == Startup /\ store_faulty = FALSE /\ requested = <<>>

\* A statement raised: the transaction is aborted and never rolled back, so
\* nothing of it is stored and the connection stays unusable.
StoreFails ==
    /\ store_faulty
    /\ conn_ok' = FALSE
    /\ UNCHANGED <<users, payments, payments_id_seq>>

\* ------------------------------------------------------------- /start
\* variant: the row is written without looking for an existing one
EnsureUserResets(c) ==
    (users \ UsersOf(c)) \cup {UserRow(c, TgUsername(c), NULL, "new", NoTime)}

\* SELECT 1 FROM users WHERE chat_id = c; INSERT the row if there is none
EnsureUser(c) ==
    IF UsersOf(c) = {}
    THEN users \cup {UserRow(c, TgUsername(c), NULL, "new", NoTime)}
    ELSE users

start(c) ==
    /\ \/ /\ conn_ok
          /\ users' = EnsureUser(c)
          /\ UNCHANGED <<payments, payments_id_seq, conn_ok>>
       \/ StoreFails
    /\ sent' = <<Note(c, "welcome")>>
    /\ UNCHANGED <<store_faulty, user_state, now>>
    /\ UNCHANGED running
    /\ UNCHANGED requested
    /\ scenario' = Follow("start", c, <<>>)

\* --------------------------------------------- button_handler: reg_<package>
\* data in ("reg_standard", "reg_x")
PackageOf(data) == IF data = "reg_standard" THEN "Standard" ELSE "X"

\* variant: the status is set only for a row that is still new
SetPackageOnlyNew(r, package) ==
    IF r.payment_status = "new"
    THEN [r EXCEPT !.package = package, !.payment_status = "pending_payment"]
    ELSE [r EXCEPT !.package = package]

\* SET package = %s, payment_status = 'pending_payment'
SetPackage(r, package) ==
    [r EXCEPT !.package = package, !.payment_status = "pending_payment"]

choose_package(uid, data) ==
    LET package == PackageOf(data)
        SetPkg == [r \in users |-> SetPackage(r, package)]
        rowcount == Cardinality(UsersOf(uid))
    IN /\ \/ /\ conn_ok
             /\ users' = IF rowcount = 0
                         THEN users \cup {UserRow(uid, TgUsername(uid), package,
                                                  "pending_payment", NoTime)}
                         ELSE UpdateUsers(uid, SetPkg)
             /\ UNCHANGED <<payments, payments_id_seq, conn_ok>>
          \/ StoreFails
       /\ sent' = <<Msg(uid, "choose_account", None, None, <<>>,
                        <<<<"select_account:", "Bank A">>, <<"select_account:", "Bank B">>>>)>>
       /\ UNCHANGED <<store_faulty, user_state, now>>
       /\ UNCHANGED running
       /\ UNCHANGED requested
       /\ scenario' = Follow("choose_package", uid, data)

\* ------------------------------------- button_handler: select_account:<name>
select_account(uid, account_name) ==
    LET payment_id == payments_id_seq
    IN /\ \/ /\ conn_ok
             /\ payments_id_seq <= MaxPayments
             /\ payments' = payments \cup {PaymentRow(payment_id, uid, "pending")}
             /\ payments_id_seq' = payments_id_seq + 1
             /\ user_state' = [user_state EXCEPT ![uid] = ExpectScreenshot(payment_id)]
             /\ sent' = <<Msg(uid, "payment_details", None, payment_id, <<>>, <<>>)>>
             /\ UNCHANGED <<users, conn_ok>>
          \/ /\ StoreFails
             /\ sent' = <<Note(uid, "error_payment_record")>>
             /\ UNCHANGED user_state
       /\ UNCHANGED <<store_faulty, now>>
       /\ UNCHANGED running
       /\ UNCHANGED requested
       /\ scenario' = Follow("select_account", uid, account_name)

\* ---------------------------------------- button_handler: approve_reg_...
\* parts = data.split("_"); parts[2] is the third part, parts[3] the fourth
ParseFails(parts) == ~IsInt(parts[3]) \/ (Len(parts) > 3 /\ ~IsInt(parts[4]))

TargetChat(parts) == ToInt(parts[3])

PaymentId(parts) == IF Len(parts) > 3 THEN ToInt(parts[4]) ELSE None

\* SET payment_status = 'approved' / SET payment_status = 'new'
SetStatus(r, status) == [r EXCEPT !.payment_status = status]

approve_reg(c, parts) ==
    LET target_chat == TargetChat(parts)
        payment_id == PaymentId(parts)
        SetApproved == [r \in users |-> SetStatus(r, "approved")]
    IN /\ IF ParseFails(parts)
          THEN /\ sent' = <<Note(c, "invalid_approval_data")>>
               /\ UNCHANGED <<users, payments, payments_id_seq, conn_ok>>
          ELSE \/ /\ conn_ok
                  /\ payments' = IF payment_id # None
                                 THEN UpdatePayment(payment_id, "approved")
                                 ELSE payments
                  /\ users' = UpdateUsers(target_chat, SetApproved)
                  /\ sent' = <<Note(target_chat, "payment_approved"),
                               Msg(c, "approved_finalize", target_chat, None, <<>>,
                                   <<FinalizeData(target_chat)>>)>>
                  /\ UNCHANGED <<payments_id_seq, conn_ok>>
               \/ /\ StoreFails
                  /\ sent' = <<Note(c, "error_approving")>>
       /\ UNCHANGED <<store_faulty, user_state, now>>
       /\ UNCHANGED running
       /\ UNCHANGED requested
       /\ scenario' = Follow("approve_reg", c, parts)

\* ----------------------------------------- button_handler: reject_reg_...
reject_reg(c, parts) ==
    LET target_chat == TargetChat(parts)
        payment_id == PaymentId(parts)
        SetNew == [r \in users |-> SetStatus(r, "new")]
    IN /\ IF ParseFails(parts)
          THEN /\ sent' = <<Note(c, "invalid_rejection_data")>>
               /\ UNCHANGED <<users, payments, payments_id_seq, conn_ok>>
          ELSE \/ /\ conn_ok
                  /\ payments' = IF payment_id # None
                                 THEN UpdatePayment(payment_id, "rejected")
                                 ELSE payments
                  /\ users' = UpdateUsers(target_chat, SetNew)
                  /\ sent' = <<Note(target_chat, "payment_rejected"),
                               Note(c, "rejected_user_notified")>>
                  /\ UNCHANGED <<payments_id_seq, conn_ok>>
               \/ /\ StoreFails
                  /\ sent' = <<Note(c, "error_rejecting")>>
       /\ UNCHANGED <<store_faulty, user_state, now>>
       /\ UNCHANGED running
       /\ UNCHANGED requested
       /\ scenario' = Follow("reject_reg", c, parts)

\* --------------------------------------- button_handler: finalize_reg_...
finalize_reg(c, parts) ==
    /\ IF ~IsInt(parts[3])
       THEN \* int() raises outside the inner try: the outer except answers
            /\ sent' = <<Note(c, "error_occurred")>>
            /\ UNCHANGED <<user_state, requested>>
       ELSE /\ user_state' = [user_state EXCEPT
                                 ![ADMIN_ID] = ExpectCredentials(ToInt(parts[3]))]
            /\ sent' = <<Msg(ADMIN_ID, "send_credentials_prompt", ToInt(parts[3]),
                             None, <<>>, <<>>),
                         Note(c, "waiting_for_credentials")>>
            /\ requested' = Requested("finalize_reg", c, ToInt(parts[3]))
    /\ UNCHANGED <<users, payments, payments_id_seq, conn_ok, store_faulty, now>>
    /\ UNCHANGED running
    /\ scenario' = Follow("finalize_reg", c, parts)

\* --------------------------------------------------------- handle_photo
\* variant: any chat with a users row counts as expecting a screenshot
ExpectsScreenshotAnyUser(state) == state.expecting = "reg_screenshot" \/ users # {}

\* state.get("expecting") == "reg_screenshot"
ExpectsScreenshot(state) == state.expecting = "reg_screenshot"

handle_photo(uid) ==
    LET state == user_state[uid]
        payment_id == state.payment_id
        SetPendingApproval == [r \in users |-> SetStatus(r, "pending_approval")]
        to_admin == Msg(ADMIN_ID, "payment_screenshot", uid, payment_id, <<>>,
                        <<ApproveData(uid, payment_id), RejectData(uid, payment_id),
                          FinalizeData(uid)>>)
    IN /\ IF ~ExpectsScreenshot(state)
          THEN /\ sent' = <<Note(uid, "no_payment_process")>>
               /\ UNCHANGED <<users, payments, payments_id_seq, conn_ok, user_state>>
          ELSE \/ /\ conn_ok
                  /\ users' = UpdateUsers(uid, SetPendingApproval)
                  /\ user_state' = Pop(uid)
                  /\ sent' = <<to_admin, Note(uid, "screenshot_received")>>
                  /\ UNCHANGED <<payments, payments_id_seq, conn_ok>>
               \/ /\ StoreFails
                  /\ sent' = <<to_admin, Note(uid, "screenshot_received"),
                               Note(uid, "error_processing_screenshot")>>
                  /\ UNCHANGED user_state
       /\ UNCHANGED <<store_faulty, now>>
       /\ UNCHANGED running
       /\ UNCHANGED requested
       /\ scenario' = Follow("handle_photo", uid, <<>>)

\* ---------------------------------------------------------- handle_text
\* variant: the status is left as it was
SetRegisteredKeepsStatus(r, username, t) ==
    [r EXCEPT !.username = username, !.registration_date = t]

\* SET username = %s, payment_status = 'registered', registration_date = %s
SetRegistered(r, username, t) ==
    [r EXCEPT !.username = username, !.payment_status = "registered",
              !.registration_date = t]

\* UPDATE payments SET status = 'approved' WHERE chat_id = c AND status = 'pending'
ApprovePendingOf(c) ==
    {IF p.chat_id = c /\ p.status = "pending" THEN [p EXCEPT !.status = "approved"] ELSE p
        : p \in payments}

handle_text(uid, text) ==
    LET admin_state == user_state[ADMIN_ID]
        lines == CredentialLines(text)
        username == lines[1]
        password == lines[2]
        target == admin_state.for_user
        SetReg == [r \in users |-> SetRegistered(r, username, now)]
    IN /\ IF uid = ADMIN_ID /\ admin_state.expecting = "user_credentials"
          THEN IF Len(lines) < 2
               THEN /\ sent' = <<Note(uid, "credentials_two_lines")>>
                    /\ UNCHANGED <<users, payments, payments_id_seq, conn_ok, user_state, now,
                                   requested>>
               ELSE IF target = None
               THEN /\ sent' = <<Note(uid, "no_target_user")>>
                    /\ user_state' = Pop(ADMIN_ID)
                    /\ UNCHANGED <<users, payments, payments_id_seq, conn_ok, now, requested>>
               ELSE /\ \/ /\ conn_ok
                          /\ now <= MaxTime
                          /\ users' = UpdateUsers(target, SetReg)
                          /\ payments' = ApprovePendingOf(target)
                          /\ sent' = <<Msg(target, "registration_complete", None, None,
                                           <<username, password>>, <<>>),
                                       Msg(uid, "credentials_set", target, None, <<>>, <<>>)>>
                          /\ now' = now + 1
                          /\ requested' = Requested("delivered", target, target)
                          /\ UNCHANGED <<payments_id_seq, conn_ok>>
                       \/ /\ StoreFails
                          /\ sent' = <<Note(uid, "failed_to_set_credentials")>>
                          /\ UNCHANGED <<now, requested>>
                    \* finally: user_state.pop(ADMIN_ID, None)
                    /\ user_state' = Pop(ADMIN_ID)
          ELSE /\ sent' = <<Note(uid, "not_understood")>>
               /\ UNCHANGED <<users, payments, payments_id_seq, conn_ok, user_state, now,
                              requested>>
       /\ UNCHANGED store_faulty
       /\ UNCHANGED running
       /\ scenario' = Follow("handle_text", uid, text)

\* ------------------------------------------------------ inputs of updates
\* texts an actor may send, each a sequence of lines
Texts ==
    { << <<" ">>, <<"a">> >>,
      << <<"a">>, <<"S">> >>,
      << <<" ", "a", " ">>, <<" ">>, <<"S">> >> }

\* The callback data of the administrator's buttons, as data.split("_") parts.
\* Any client can send them: with a payment id (of the target chat or not) or
\* without one, for a chat or for the id 0, or with a part that is no number.
ChatParts == {Str(c) : c \in Actors}

PaymentParts == {Str(i) : i \in 1..MaxPayments}

AdminCallbacks(verb) ==
    {<<verb, "reg", Str(c)>> : c \in Registrants}
        \cup {<<verb, "reg", t, p>> : t \in ChatParts, p \in PaymentParts}

ApproveCallbacks == AdminCallbacks("approve")

RejectCallbacks == AdminCallbacks("reject")

FinalizeCallbacks == {<<"finalize", "reg", Str(c)>> : c \in Registrants \cup {0}}

\* data whose chat part int() rejects, as sent from the administrator's chat
Unparsable(verb) == <<verb, "reg", "None">>

Next ==
    \/ \E c \in Registrants : start(c)
    \/ \E c \in Registrants, d \in {"reg_standard", "reg_x"} : choose_package(c, d)
    \/ \E c \in Registrants, acc \in PAYMENT_ACCOUNTS : select_account(c, acc)
    \/ \E c \in Actors, parts \in ApproveCallbacks : approve_reg(c, parts)
    \/ approve_reg(ADMIN_ID, Unparsable("approve"))
    \/ \E c \in Actors, parts \in RejectCallbacks : reject_reg(c, parts)
    \/ reject_reg(ADMIN_ID, Unparsable("reject"))
    \/ \E c \in Actors, parts \in FinalizeCallbacks : finalize_reg(c, parts)
    \/ finalize_reg(ADMIN_ID, Unparsable("finalize"))
    \/ \E c \in Actors : handle_photo(c)
    \/ \E c \in Actors, text \in Texts : handle_text(c, text)

Spec == Init /\ [][Next]_vars

SpecFaults == InitFaults /\ [][Next]_vars

SpecRequests == InitRequests /\ [][Next]_vars

\* ------------------------------------------- the handlers, await by await
\* handle_photo and handle_text write after an await that follows their read
\* of user_state.  Here each of them is a sequence of steps, one for every
\* stretch of code between two awaits; the other handlers, which write before
\* their first send, stay one step.
handle_photo_begin(uid) ==
    LET state == user_state[uid]
        payment_id == state.payment_id
    IN /\ CanDispatch
       /\ ExpectsScreenshot(state)
       \* await context.bot.send_photo(chat_id=ADMIN_ID, ...)
       /\ sent' = <<Msg(ADMIN_ID, "payment_screenshot", uid, payment_id, <<>>,
                        <<ApproveData(uid, payment_id), RejectData(uid, payment_id),
                          FinalizeData(uid)>>)>>
       /\ running' = Suspended("handle_photo", uid, state, "send_photo")
       /\ UNCHANGED <<users, payments, payments_id_seq, conn_ok, store_faulty,
                      user_state, now>>
       /\ UNCHANGED requested
       /\ scenario' = Follow("await", uid, <<>>)

handle_photo_replied ==
    /\ running.handler = "handle_photo"
    /\ running.pc = "send_photo"
    \* await msg.reply_text("Screenshot received! ...")
    /\ sent' = Append(sent, Note(running.uid, "screenshot_received"))
    /\ running' = [running EXCEPT !.pc = "reply_text"]
    /\ UNCHANGED <<users, payments, payments_id_seq, conn_ok, store_faulty,
                   user_state, now>>
    /\ UNCHANGED requested
    /\ scenario' = Follow("await", running.uid, <<>>)

handle_photo_commit ==
    LET uid == running.uid
        SetPendingApproval == [r \in users |-> SetStatus(r, "pending_approval")]
    IN /\ running.handler = "handle_photo"
       /\ running.pc = "reply_text"
       /\ \/ /\ conn_ok
             /\ users' = UpdateUsers(uid, SetPendingApproval)
             /\ user_state' = Pop(uid)
             /\ UNCHANGED <<payments, payments_id_seq, conn_ok, sent>>
          \/ /\ StoreFails
             /\ sent' = Append(sent, Note(uid, "error_processing_screenshot"))
             /\ UNCHANGED user_state
       /\ running' = Idle
       /\ UNCHANGED <<store_faulty, now>>
       /\ UNCHANGED requested
       /\ scenario' = Follow("await", uid, <<>>)

\* the administrator's text is a credentials submission that reaches the UPDATE
CredentialsReady(uid, text) ==
    /\ uid = ADMIN_ID
    /\ user_state[ADMIN_ID].expecting = "user_credentials"
    /\ Len(CredentialLines(text)) >= 2
    /\ user_state[ADMIN_ID].for_user # None

handle_text_commit(text) ==
    LET admin_state == user_state[ADMIN_ID]
        lines == CredentialLines(text)
        target == admin_state.for_user
        SetReg == [r \in users |-> SetRegistered(r, lines[1], now)]
    IN /\ CanDispatch
       /\ CredentialsReady(ADMIN_ID, text)
       /\ \/ /\ conn_ok
             /\ now <= MaxTime
             /\ users' = UpdateUsers(target, SetReg)
             /\ payments' = ApprovePendingOf(target)
             /\ now' = now + 1
             \* await context.bot.send_message(target, ...)
             /\ sent' = <<Msg(target, "registration_complete", None, None,
                              <<lines[1], lines[2]>>, <<>>)>>
             /\ running' = Suspended("handle_text", ADMIN_ID, admin_state, "send_message")
             /\ UNCHANGED <<payments_id_seq, conn_ok, user_state>>
          \/ /\ StoreFails
             /\ sent' = <<Note(ADMIN_ID, "failed_to_set_credentials")>>
             /\ user_state' = Pop(ADMIN_ID)
             /\ UNCHANGED <<now, running>>
       /\ UNCHANGED store_faulty
       /\ UNCHANGED requested
       /\ scenario' = Follow("await", ADMIN_ID, text)

handle_text_finally ==
    /\ running.handler = "handle_text"
    \* await msg.reply_text("Credentials set ..."); finally: user_state.pop(ADMIN_ID, None)
    /\ sent' = Append(sent, Msg(ADMIN_ID, "credentials_set", running.state.for_user,
                                None, <<>>, <<>>))
    /\ user_state' = Pop(ADMIN_ID)
    /\ running' = Idle
    /\ UNCHANGED <<users, payments, payments_id_seq, conn_ok, store_faulty, now>>
    /\ UNCHANGED requested
    /\ scenario' = Follow("await", ADMIN_ID, <<>>)

NextAwaits ==
    \/ CanDispatch /\ \E c \in Registrants : start(c)
    \/ CanDispatch /\ \E c \in Registrants, d \in {"reg_standard", "reg_x"} :
                        choose_package(c, d)
    \/ CanDispatch /\ \E c \in Registrants, acc \in PAYMENT_ACCOUNTS : select_account(c, acc)
    \/ CanDispatch /\ \E c \in Actors, parts \in ApproveCallbacks : approve_reg(c, parts)
    \/ CanDispatch /\ \E c \in Actors, parts \in RejectCallbacks : reject_reg(c, parts)
    \/ CanDispatch /\ \E c \in Actors, parts \in FinalizeCallbacks : finalize_reg(c, parts)
    \/ CanDispatch /\ \E c \in Actors :
                        ~ExpectsScreenshot(user_state[c]) /\ handle_photo(c)
    \/ \E c \in Actors : handle_photo_begin(c)
    \/ handle_photo_replied
    \/ handle_photo_commit
    \/ CanDispatch /\ \E c \in Actors, text \in Texts :
                        ~CredentialsReady(c, text) /\ handle_text(c, text)
    \/ \E text \in Texts : handle_text_commit(text)
    \/ handle_text_finally

SpecAwaits == Init /\ [][NextAwaits]_vars

\* ================================================================ claims
\* rows of one chat before and after a step
RowAfter(r) == {r2 \in users' : r2.chat_id = r.chat_id}

SentKinds == {sent[i].kind : i \in 1..Len(sent)}

\* the order of the stages of payment_status
Rank(status) ==
    CASE status = "new" -> 0
      [] status = "pending_payment" -> 1
      [] status = "pending_approval" -> 2
      [] status = "approved" -> 3
      [] status = "registered" -> 4

\* the number of non-empty lines of a text, blanks not counting
NonEmptyLines(text) == Cardinality({i \in 1..Len(text) : Strip(text[i]) # <<>>})

\* C1: an approve, reject or finalize request sent by a chat that is not the
\* administrator is refused: users, payments and user_state stay as they were
\* and nothing is sent to any other chat.
C1_NonAdminRefused ==
    [][\A c \in Actors \ {ADMIN_ID} :
         \A parts \in ApproveCallbacks \cup RejectCallbacks \cup FinalizeCallbacks :
            (approve_reg(c, parts) \/ reject_reg(c, parts) \/ finalize_reg(c, parts))
            => /\ UNCHANGED <<users, payments, user_state>>
               /\ \A i \in 1..Len(sent') : sent'[i].to = c]_vars

\* C2: an approve never turns to approved a payment whose chat_id differs from
\* the target chat named in the callback data.
C2_ApproveOnlyTargetsAttempt ==
    [][\A c \in Actors : \A parts \in ApproveCallbacks :
         approve_reg(c, parts)
         => \A p \in payments' :
               (p.status = "approved" /\ p \notin payments)
               => p.chat_id = TargetChat(parts)]_vars

\* C3: payment_status of a user moves to an earlier stage only by a reject that
\* resets it to new, and never changes once it is registered.
C3_StatusNeverRegresses ==
    [][\A r \in users : \A r2 \in RowAfter(r) :
         /\ Rank(r2.payment_status) < Rank(r.payment_status)
            => /\ r2.payment_status = "new"
               /\ \E c \in Actors : \E parts \in RejectCallbacks :
                     reject_reg(c, parts)
         /\ r.payment_status = "registered" => r2.payment_status = "registered"]_vars

\* C4: registration_date of a user is written at most once, in the step that
\* sets payment_status to registered; no later step overwrites it.
C4_RegistrationDateWrittenOnce ==
    [][\A r \in users : \A r2 \in RowAfter(r) :
         r2.registration_date # r.registration_date
         => /\ r.registration_date = NoTime
            /\ r.payment_status # "registered"
            /\ r2.payment_status = "registered"]_vars

\* C5: after the sequence entry, package Standard, account Bank A, screenshot,
\* approve, finalize request, two-line credentials, the user is registered
\* under the first line as username, has exactly one payment and it is
\* approved, and was sent a credentials message carrying both lines.
C5_ReferenceSequenceRegisters ==
    scenario.stage = "registered"
    => LET u == scenario.chat
           text == scenario.text
       IN /\ Cardinality(UsersOf(u)) = 1
          /\ \A r \in UsersOf(u) :
                r.payment_status = "registered" /\ r.username = text[1]
          /\ Cardinality(PaymentsOf(u)) = 1
          /\ \A p \in PaymentsOf(u) : p.id = scenario.pid /\ p.status = "approved"
          /\ \E i \in 1..Len(sent) :
                sent[i] = Msg(u, "registration_complete", None, None,
                              <<text[1], text[2]>>, <<>>)

C5_Witness == scenario.stage = "registered" /\ scenario.text = << <<"a">>, <<"S">> >>

\* C6: after the sequence entry, package, account, screenshot, reject, the user
\* is new and the payment rejected; and whatever follows, as long as the user
\* has made no new payment, no credentials message is sent to the user.
C6_RejectedNeverGetsCredentials ==
    LET u == scenario.chat
    IN /\ scenario.stage = "rejected"
          => /\ \A r \in UsersOf(u) : r.payment_status = "new"
             /\ \A p \in PaymentsOf(u) : p.id = scenario.pid /\ p.status = "rejected"
       /\ scenario.stage \in {"rejected", "after_reject"}
          => \A i \in 1..Len(sent) :
                ~(sent[i].kind = "registration_complete" /\ sent[i].to = u)

\* C7: /start leaves exactly one users row for the chat: a new one with
\* payment_status new if there was none, the existing one untouched otherwise;
\* the rows of other chats are untouched.
C7_EntryIdempotent ==
    [][\A c \in Registrants :
         start(c)
         => /\ Cardinality(UsersOf(c)') = 1
            /\ UsersOf(c) = {}
               => \A r \in UsersOf(c)' : r.payment_status = "new" /\ r.package = NULL
            /\ UsersOf(c) # {} => UsersOf(c)' = UsersOf(c)
            /\ users \subseteq users']_vars

C7_Witness ==
    \E c \in Registrants :
        /\ sent = <<Note(c, "welcome")>>
        /\ \E r \in UsersOf(c) : r.payment_status = "pending_approval"

\* C8: choosing a package leaves exactly one users row for the chat, with
\* payment_status pending_payment and the package chosen, whatever the row was
\* (or if there was none); the row's other columns and the rows of other chats
\* are untouched, and a repeated choice changes nothing.
C8_PackageChosenUpserts ==
    [][\A c \in Registrants : \A d \in {"reg_standard", "reg_x"} :
         choose_package(c, d)
         => /\ Cardinality(UsersOf(c)') = 1
            /\ \A r2 \in UsersOf(c)' :
                  /\ r2.payment_status = "pending_payment"
                  /\ r2.package = PackageOf(d)
                  /\ \A r \in UsersOf(c) :
                        /\ r2.username = r.username
                        /\ r2.registration_date = r.registration_date
                        /\ (r.payment_status = "pending_payment" /\ r.package = PackageOf(d))
                           => users' = users
            /\ users \ UsersOf(c) = users' \ UsersOf(c)'
            /\ UNCHANGED payments]_vars

C8_Witness ==
    \E c \in Registrants :
        /\ "choose_account" \in SentKinds
        /\ \E r \in UsersOf(c) :
              /\ r.payment_status = "pending_payment"
              /\ r.package = "X"
              /\ r.registration_date # NoTime

\* C9: a photo from a chat that is not expecting a screenshot is answered "no
\* payment process": users, payments and user_state stay as they were and no
\* screenshot is forwarded to the administrator.
C9_PhotoWithoutSession ==
    [][\A c \in Actors :
         (user_state[c].expecting # "reg_screenshot" /\ handle_photo(c))
         => /\ UNCHANGED <<users, payments, user_state>>
            /\ sent' = <<Note(c, "no_payment_process")>>]_vars

C9_Witness ==
    \E c \in Registrants :
        /\ sent = <<Note(c, "no_payment_process")>>
        /\ user_state[c].expecting # "reg_screenshot"
        /\ UsersOf(c) # {}

\* C10: while the administrator is expected to send credentials, a text of
\* fewer than two non-empty lines changes neither users, payments nor
\* user_state, and is answered with the two-lines notice alone.
C10_TooFewCredentialLines ==
    [][\A text \in Texts :
         (/\ user_state[ADMIN_ID].expecting = "user_credentials"
          /\ NonEmptyLines(text) < 2
          /\ handle_text(ADMIN_ID, text))
         => /\ UNCHANGED <<users, payments, user_state>>
            /\ sent' = <<Note(ADMIN_ID, "credentials_two_lines")>>]_vars

C10_Witness ==
    /\ sent = <<Note(ADMIN_ID, "credentials_two_lines")>>
    /\ user_state[ADMIN_ID].expecting = "user_credentials"
    /\ user_state[ADMIN_ID].for_user \in Registrants

\* the payment with the same id after a step
PaymentAfter(p) == {p2 \in payments' : p2.id = p.id}

\* the pending payments of a chat
PendingOf(c) == {p \in PaymentsOf(c) : p.status = "pending"}

\* C11: once the status of a payment is approved or rejected, no step changes
\* it to another value.
C11_DecidedPaymentIsFinal ==
    [][\A p \in payments : \A p2 \in PaymentAfter(p) :
         p.status \in {"approved", "rejected"} => p2.status = p.status]_vars

\* C12: in every reachable state a chat owns at most one payment with status
\* pending.
C12_AtMostOnePending == \A c \in Actors : Cardinality(PendingOf(c)) <= 1

\* C13: selecting an account from a chat that has no users row, or whose row
\* has no package, creates no payment and opens no screenshot expectation:
\* payments and user_state stay as they were.
C13_AccountNeedsPackage ==
    [][\A c \in Registrants : \A acc \in PAYMENT_ACCOUNTS :
         (/\ \A r \in UsersOf(c) : r.package = NULL
          /\ select_account(c, acc))
         => UNCHANGED <<payments, user_state>>]_vars

\* what the kinds of the messages of the step just taken are
SentKindsAfter == {sent'[i].kind : i \in 1..Len(sent')}

\* The replies of the handlers whose statement can fail: /start and reg_ swallow
\* the failure and reply as usual, the others report it.
RepliesOfStoreHandlers ==
    {"welcome", "choose_account", "error_payment_record", "error_approving",
     "error_rejecting", "error_processing_screenshot", "failed_to_set_credentials"}

\* the step just taken ran a statement and the statement failed
StoreFailedInStep == ~conn_ok' /\ SentKindsAfter \cap RepliesOfStoreHandlers # {}

\* C14: a step in which a statement fails applies nothing: users, payments and
\* the expectation of every chat, the administrator's credentials expectation
\* included, are as before the step.
C14_FailedStepAppliesNothing ==
    [][StoreFailedInStep => UNCHANGED <<users, payments, user_state>>]_vars

\* C15: whatever failed before, the next update can be applied normally when
\* the store is reachable: in every reachable state, /start of a chat without
\* a users row is able to insert the row.
C15_ReadyAfterFailure ==
    \A c \in Registrants :
        UsersOf(c) = {} => ENABLED (start(c) /\ UsersOf(c)' # {})

\* C16: when the screenshot notice with the approve, reject and finalize
\* buttons reaches the administrator, payment_status pending_approval of the
\* submitting chat is stored.
C16_NoticeAfterCommit ==
    [][\A c \in Actors :
         (handle_photo(c) /\ "payment_screenshot" \in SentKindsAfter)
         => \A r \in UsersOf(c)' : r.payment_status = "pending_approval"]_vars

\* the last update handled was reg_standard or reg_x from chat c
JustChosePackage(c) == sent # <<>> /\ sent[1].kind = "choose_account" /\ sent[1].to = c

\* the last update handled was a photo of chat c that was forwarded
JustSubmitted(c) == sent # <<>> /\ sent[1].kind = "payment_screenshot" /\ sent[1].chat = c

\* C17: a photo sent directly after choosing a package, with no account
\* selected in between, is answered "no payment process" and nothing is
\* forwarded to the administrator, also when the chat was expecting a
\* screenshot before it chose the package.
C17_PackageChoiceDropsExpectation ==
    [][\A c \in Registrants :
         (JustChosePackage(c) /\ handle_photo(c))
         => sent' = <<Note(c, "no_payment_process")>>]_vars

C20_ExpectationNamesLatestPayment ==
    \A c \in Actors :
        ExpectsScreenshot(user_state[c])
        => \E p \in PaymentsOf(c) :
              /\ p.id = user_state[c].payment_id
              /\ \A q \in PaymentsOf(c) : q.id <= p.id

C20_Witness ==
    \E c \in Registrants :
        /\ ExpectsScreenshot(user_state[c])
        /\ Cardinality(PaymentsOf(c)) = 2
        /\ ~conn_ok

\* C21: whenever a credentials message has been sent to a chat, the chat has a
\* users row with payment_status registered and the username of the message.
C21_CredentialsOnlyToRegistered ==
    \A i \in 1..Len(sent) :
        sent[i].kind = "registration_complete"
        => \E r \in UsersOf(sent[i].to) :
              r.payment_status = "registered" /\ r.username = sent[i].lines[1]

\* C22: a credentials message goes only to the target of the administrator's
\* last finalize request, and only once for it: the step that delivers it ends
\* the administrator's credentials expectation, and a request made for one chat
\* and then for another is served to the other chat alone.
C22_CredentialsToRequestedTarget ==
    [][\A text \in Texts :
         handle_text(ADMIN_ID, text)
         => \A i \in 1..Len(sent') :
               sent'[i].kind = "registration_complete"
               => /\ requested = <<sent'[i].to>>
                  /\ user_state'[ADMIN_ID].expecting = "none"]_vars

====
